---- MODULE Spec2Model ----
(***************************************************************************)
(* Model of the book service (src/main.go): the HTTP handlers, the domain  *)
(* service, the cache-aside repository in front of the relational store    *)
(* and the Redis cache.  Every network call of a request (store query,     *)
(* cache get/set/del, ping) is one atomic step; requests run concurrently  *)
(* in the slots of Procs.  A store or cache call may fail at any time.     *)
(***************************************************************************)
EXTENDS Integers, Sequences, FiniteSets, TLC

\* ---------------------------------------------------------------- bounds
\* Last tick of the clock that time.Now() reads.
MaxClock == 1

\* ------------------------------------------------------- program constants
StatusOK == 200
StatusCreated == 201
StatusBadRequest == 400
StatusNotFound == 404
StatusMethodNotAllowed == 405
StatusInternalServerError == 500
StatusServiceUnavailable == 503

\* The lifetime of a cache entry, time.Hour, in ticks of the clock (hours).
TTL == 1

\* ------------------------------------------------------------ input sets
Procs == {"p1", "p2"}
Ids == {"1", "2"}
Titles == {"", "a"}
Ratings == {-1, 0, 5, 6}
Paths == {"/books", "/books/", "/ready", "/health"}

\* ------------------------------------------------------------- data model
\* type Book; ZeroBook is Go's zero value of it.
Book(id, title, rating, created_at) ==
    [id |-> id, title |-> title, rating |-> rating, created_at |-> created_at]

ZeroBook == Book("", "", 0, 0)

\* The request bodies a client can post: a Book without creation timestamp.
Bodies == {Book(i, t, r, 0) : i \in Ids, t \in Titles, r \in Ratings}

\* An HTTP request: method, path, the id query parameter, and the body
\* (bodyOK is whether the body decodes as JSON).
Request(method, path, id, bodyOK, body) ==
    [method |-> method, path |-> path, id |-> id, bodyOK |-> bodyOK, body |-> body]

NoRequest == Request("", "", "", FALSE, ZeroBook)

\* Every request a client can send.
Requests ==
    {Request("GET", path, id, FALSE, ZeroBook) :
        path \in {"/books", "/books/"}, id \in Ids \cup {""}}
    \cup {Request("GET", path, "", FALSE, ZeroBook) : path \in {"/ready", "/health"}}
    \cup {Request("POST", "/books", "", TRUE, b) : b \in Bodies}
    \cup {Request("POST", path, "", FALSE, ZeroBook) : path \in Paths}

\* Requests that reach the repository: every read, and one valid book to
\* create per id.
RepoRequests ==
    {r \in Requests :
        \/ r.method = "GET" /\ r.path = "/books/"
        \/ r.method = "POST" /\ r.path = "/books" /\ r.bodyOK
              /\ r.body.title = "a" /\ r.body.rating = 5}

\* The value a repository method returns: kind is "ok" (Create's nil),
\* "book", "absent" (nil, nil), "books" or "err".
Ret(kind, book, books, err) ==
    [kind |-> kind, book |-> book, books |-> books, err |-> err]

NoRet == Ret("none", ZeroBook, <<>>, "")

\* The HTTP answer: status code and the text of an error or health body;
\* a record or list body is the ret of the request.
Resp(status, text) == [status |-> status, text |-> text]

NoResp == Resp(0, "")

\* ----------------------------------------------------------- JSON coding
\* Mutant: the encoder leaves the title out.
MarshalBook_NoTitle(b) == <<b.id, "", b.rating, b.created_at>>

\* json.Marshal of a Book: its four fields in order.
MarshalBook(b) == <<b.id, b.title, b.rating, b.created_at>>

\* json.Unmarshal into a Book succeeds on a four-field value only.
WellFormedBook(v) == Len(v) = 4

\* Mutant: the decoder does not fill in CreatedAt.
UnmarshalBook_NoCreatedAt(v) == Book(v[1], v[2], v[3], 0)

UnmarshalBook(v) == Book(v[1], v[2], v[3], v[4])

\* json.Marshal of a []Book.
MarshalBooks(bs) == [i \in 1..Len(bs) |-> MarshalBook(bs[i])]

WellFormedBooks(v) == \A i \in 1..Len(v) : Len(v[i]) = 4

UnmarshalBooks(v) == [i \in 1..Len(v) |-> UnmarshalBook(v[i])]

\* A cached value that decodes neither as a Book nor as a []Book.
Malformed == << <<>> >>

\* ------------------------------------------------------------------ cache
\* Mutant: the key does not depend on the id.
CacheKey_Fixed(id) == "book:" \o "1"

\* fmt.Sprintf("book:%s", id)
CacheKey(id) == "book:" \o id

ListKey == "books:all"

CacheKeys == {CacheKey(i) : i \in Ids} \cup {ListKey}

Entry(val) == [present |-> TRUE, val |-> val]

NoEntry == [present |-> FALSE, val |-> <<>>]

\* -------------------------------------------------------------- the store
\* Rows of table books with the given primary key.
RowsOf(rows, id) == {b \in rows : b.id = id}

\* Mutant: the table has no primary key.
InsertAllowed_NoPrimaryKey(rows, b) ==
    /\ b.rating >= 0
    /\ b.rating <= 5

\* CHECK (rating >= 0 AND rating <= 5), title NOT NULL, id PRIMARY KEY.
InsertAllowed(rows, b) ==
    /\ RowsOf(rows, b.id) = {}
    /\ b.rating >= 0
    /\ b.rating <= 5

\* ORDER BY created_at DESC: every ordering of the rows that is descending
\* in created_at (rows with equal timestamps come in any order).
Orderings(rows) ==
    {s \in [1..Cardinality(rows) -> rows] :
        /\ \A i, j \in 1..Cardinality(rows) : i # j => s[i] # s[j]
        /\ \A i, j \in 1..Cardinality(rows) : i < j => s[i].created_at >= s[j].created_at}

VARIABLES
    db,         \* the rows of table books
    cache,      \* the Redis cache: key -> entry
    now,        \* the clock
    pc,         \* per slot: the call the request is about to make
    req,        \* per slot: the HTTP request
    loc,        \* per slot: the handler's local book / books
    ops,        \* per slot: the store and cache calls issued, with outcome
    done,       \* the request answered by the step just taken, if any
    returned,   \* history: the books whose Create has returned nil
    snap,       \* history, per slot: returned when the request arrived
    listOrigin, \* history: how the books:all entry came to be as it is
    lastGet,    \* history: the latest answer of GetByID, until the next insert
    server,     \* the process: "serving", "draining" (in server.Shutdown), "exited"
    graceOver,  \* the context of server.Shutdown has reached its deadline
    conns,      \* the connections the process holds open
    exitCode,   \* the exit status of the process, -1 while it runs
    listSetAt,  \* history: when the books:all entry was written, -1 if absent
    commitAt    \* history, per id: when the insert of its row committed, -1 if none

vars == <<db, cache, now, pc, req, loc, ops, done, returned, snap, listOrigin, lastGet,
          server, graceOver, conns, exitCode, listSetAt, commitAt>>

\* The process state, and the history that only the timed runs keep.
lifecycle == <<server, graceOver, conns, exitCode>>

timing == <<listSetAt, commitAt>>

\* An answered request: its slot, the request, what the repository returned,
\* the HTTP answer, the calls it made and its snap.
Done(p, r, nret, nresp, o, seen) ==
    [p |-> p, req |-> r, ret |-> nret, resp |-> nresp, ops |-> o, snap |-> seen]

NoDone == Done("", NoRequest, NoRet, NoResp, <<>>, {})

\* One call to the store or the cache and whether it succeeded.
\* n is the number of keys a cache.del reports as removed, 0 elsewhere.
OpN(name, ok, n) == << [name |-> name, ok |-> ok, n |-> n] >>

Op(name, ok) == OpN(name, ok, 0)

\* The calls os include a failed call of the given name.
Failed(os, name) == \E i \in 1..Len(os) : os[i].name = name /\ ~os[i].ok

\* The errors of the store: no connection, and a violated constraint
\* (primary key, rating range).
ErrUnavailable == "store unavailable"

ErrConstraint == "constraint violation"

Local(book, books) == [book |-> book, books |-> books]

NoLocal == Local(ZeroBook, <<>>)

Init ==
    /\ db = {}
    /\ cache = [k \in CacheKeys |-> NoEntry]
    /\ now = 0
    /\ pc = [p \in Procs |-> "idle"]
    /\ req = [p \in Procs |-> NoRequest]
    /\ loc = [p \in Procs |-> NoLocal]
    /\ ops = [p \in Procs |-> <<>>]
    /\ done = NoDone
    /\ returned = {}
    /\ snap = [p \in Procs |-> {}]
    /\ listOrigin = "none"
    /\ lastGet = NoRequest.id :> NoRet
    /\ server = "serving"
    /\ graceOver = FALSE
    /\ conns = {"db", "cache"}
    /\ exitCode = -1
    /\ listSetAt = -1
    /\ commitAt = [i \in Ids |-> -1]

\* ------------------------------------------------------------ slot updates
\* A request arrives at slot p and reaches its first network call.
Begin(p, r, npc, nloc, seen) ==
    /\ pc' = [pc EXCEPT ![p] = npc]
    /\ req' = [req EXCEPT ![p] = r]
    /\ loc' = [loc EXCEPT ![p] = nloc]
    /\ ops' = [ops EXCEPT ![p] = <<>>]
    /\ snap' = [snap EXCEPT ![p] = seen]
    /\ done' = NoDone

\* A request arrives at slot p and is answered without any network call.
Answer(p, r, nret, nresp) ==
    /\ done' = Done(p, r, nret, nresp, <<>>, {})
    /\ UNCHANGED <<pc, req, loc, ops, snap>>

\* The request of slot p made call o and goes on to npc.
Step(p, npc, nloc, o) ==
    /\ pc' = [pc EXCEPT ![p] = npc]
    /\ loc' = [loc EXCEPT ![p] = nloc]
    /\ ops' = [ops EXCEPT ![p] = @ \o o]
    /\ done' = NoDone
    /\ UNCHANGED <<req, snap>>

\* The request of slot p made call o and is answered; the slot is free again.
Finish(p, nret, nresp, o) ==
    /\ done' = Done(p, req[p], nret, nresp, ops[p] \o o, snap[p])
    /\ pc' = [pc EXCEPT ![p] = "idle"]
    /\ req' = [req EXCEPT ![p] = NoRequest]
    /\ loc' = [loc EXCEPT ![p] = NoLocal]
    /\ ops' = [ops EXCEPT ![p] = <<>>]
    /\ snap' = [snap EXCEPT ![p] = {}]

\* Slot p can take a request: the listener is open and the slot is idle.
Free(p) == server = "serving" /\ pc[p] = "idle"

\* ----------------------------------------------------------------- routing
\* The routes registered in main: "/books" is an exact pattern, "/books/" a
\* subtree pattern.
ServeMux(path) ==
    CASE path = "/books" -> "CreateBook"
      [] path = "/books/" -> "GetBook"
      [] path = "/ready" -> "ReadyHandler"
      [] path = "/health" -> "HealthHandler"

\* ----------------------------------------------------------- domain service
\* Mutant: the title is not checked.
Validate_NoTitle(book) ==
    IF book.rating < 0 \/ book.rating > 5 THEN "rating must be between 0 and 5"
    ELSE ""

\* BookService.CreateBook's validation: the error text, "" when valid.
Validate(book) ==
    IF book.title = "" THEN "title is required"
    ELSE IF book.rating < 0 \/ book.rating > 5 THEN "rating must be between 0 and 5"
    ELSE ""

\* BookHandler.CreateBook's answer to an error of the service.
CreateErrorStatus == StatusBadRequest

\* --------------------------------------------- POST /books: BookHandler.CreateBook
\* The handler up to the store insert: method check, body decoding, the
\* service's validation, and Create's time.Now() argument.
CreateBook(p, R) ==
    /\ Free(p)
    /\ \E r \in R :
        /\ ServeMux(r.path) = "CreateBook"
        /\ IF r.method # "POST"
              THEN Answer(p, r, NoRet, Resp(StatusMethodNotAllowed, "Method not allowed"))
           ELSE IF ~r.bodyOK
              THEN Answer(p, r, NoRet, Resp(StatusBadRequest, "Invalid request body"))
           ELSE IF Validate(r.body) # ""
              THEN Answer(p, r, Ret("err", ZeroBook, <<>>, Validate(r.body)),
                          Resp(CreateErrorStatus, Validate(r.body)))
           ELSE Begin(p, r, "Create_Insert",
                      Local([r.body EXCEPT !.created_at = now], <<>>), {})
    /\ UNCHANGED <<db, cache, now, returned, listOrigin>>

\* Mutant: Create goes on to the cache when the insert has failed.
Create_Insert_Proceeding(p) ==
    /\ pc[p] = "Create_Insert"
    /\ \E up \in BOOLEAN :
        LET ok == up /\ InsertAllowed(db, loc[p].book) IN
        /\ db' = IF ok THEN db \cup {loc[p].book} ELSE db
        /\ Step(p, "Create_Set", loc[p], Op("db.insert", ok))
    /\ UNCHANGED <<cache, now, returned, listOrigin>>

\* Create: INSERT ... RETURNING created_at.
Create_Insert(p) ==
    /\ pc[p] = "Create_Insert"
    /\ \E up \in BOOLEAN :
        LET err == IF ~up THEN ErrUnavailable
                   ELSE IF ~InsertAllowed(db, loc[p].book) THEN ErrConstraint
                   ELSE ""
        IN  IF err = ""
              THEN /\ db' = db \cup {loc[p].book}
                   /\ Step(p, "Create_Set", loc[p], Op("db.insert", TRUE))
              ELSE /\ db' = db
                   /\ Finish(p, Ret("err", ZeroBook, <<>>, err),
                              Resp(CreateErrorStatus, err), Op("db.insert", FALSE))
    /\ UNCHANGED <<cache, now, returned, listOrigin>>

\* Create: cache.Set of book:<id>; the outcome is ignored.
Create_Set(p) ==
    /\ pc[p] = "Create_Set"
    /\ \E up \in BOOLEAN :
        /\ cache' = IF up
                      THEN [cache EXCEPT ![CacheKey(loc[p].book.id)] =
                                Entry(MarshalBook(loc[p].book))]
                      ELSE cache
        /\ Step(p, "Create_Del", loc[p], Op("cache.set", up))
    /\ UNCHANGED <<db, now, returned, listOrigin>>

\* Mutant: Create deletes the book's own key instead of books:all.
Create_Del_WrongKey(p) ==
    /\ pc[p] = "Create_Del"
    /\ \E up \in BOOLEAN :
        /\ cache' = IF up THEN [cache EXCEPT ![CacheKey(loc[p].book.id)] = NoEntry]
                          ELSE cache
        /\ listOrigin' = listOrigin
        /\ Finish(p, Ret("ok", loc[p].book, <<>>, ""), Resp(StatusCreated, ""),
                  OpN("cache.del", up, 0))
    /\ returned' = returned \cup {loc[p].book}
    /\ UNCHANGED <<db, now>>

\* Create: cache.Del of books:all, outcome ignored; Create returns nil and
\* the handler answers 201 with the book.
Create_Del(p) ==
    /\ pc[p] = "Create_Del"
    /\ \E up \in BOOLEAN :
        /\ cache' = IF up THEN [cache EXCEPT ![ListKey] = NoEntry] ELSE cache
        /\ listOrigin' = IF up \/ ~cache[ListKey].present THEN "none" ELSE "left"
        /\ Finish(p, Ret("ok", loc[p].book, <<>>, ""), Resp(StatusCreated, ""),
                  OpN("cache.del", up, IF up /\ cache[ListKey].present THEN 1 ELSE 0))
    /\ returned' = returned \cup {loc[p].book}
    /\ UNCHANGED <<db, now>>

\* ------------------------------------------------ GET /books/: BookHandler.GetBook
\* The handler up to the first cache call: method check, then ListBooks
\* when the id parameter is empty and GetBook otherwise.
GetBook(p, R) ==
    /\ Free(p)
    /\ \E r \in R :
        /\ ServeMux(r.path) = "GetBook"
        /\ IF r.method # "GET"
              THEN Answer(p, r, NoRet, Resp(StatusMethodNotAllowed, "Method not allowed"))
           ELSE IF r.id = ""
              THEN Begin(p, r, "List_Get", NoLocal, returned)
           ELSE Begin(p, r, "GetByID_Get", NoLocal, RowsOf(returned, r.id))
    /\ UNCHANGED <<db, cache, now, returned, listOrigin>>

\* GetByID: cache.Get of book:<id>; a well-formed hit is returned, anything
\* else (error, miss, decode failure) falls through to the store.
GetByID_Get(p) ==
    /\ pc[p] = "GetByID_Get"
    /\ \E up \in BOOLEAN :
        LET e == cache[CacheKey(req[p].id)] IN
        IF up /\ e.present /\ WellFormedBook(e.val)
          THEN Finish(p, Ret("book", UnmarshalBook(e.val), <<>>, ""),
                      Resp(StatusOK, ""), Op("cache.get", TRUE))
          ELSE Step(p, "GetByID_Query", loc[p], Op("cache.get", up /\ e.present))
    /\ UNCHANGED <<db, cache, now, returned, listOrigin>>

\* Mutant: GetByID caches the zero Book for an id the store does not have.
GetByID_Query_CachingAbsent(p) ==
    /\ pc[p] = "GetByID_Query"
    /\ \E up \in BOOLEAN :
        IF ~up
          THEN /\ cache' = cache
               /\ Finish(p, Ret("err", ZeroBook, <<>>, ErrUnavailable),
                      Resp(StatusInternalServerError, "Failed to fetch book"),
                      Op("db.query", FALSE))
        ELSE IF RowsOf(db, req[p].id) = {}
          THEN /\ cache' = [cache EXCEPT ![CacheKey(req[p].id)] =
                                Entry(MarshalBook(ZeroBook))]
               /\ Finish(p, Ret("absent", ZeroBook, <<>>, ""),
                      Resp(StatusNotFound, "Book not found"),
                      Op("db.query", TRUE) \o Op("cache.set", TRUE))
        ELSE /\ cache' = cache
             /\ \E b \in RowsOf(db, req[p].id) :
                    Step(p, "GetByID_Set", Local(b, <<>>), Op("db.query", TRUE))
    /\ UNCHANGED <<db, now, returned, listOrigin>>

\* GetByID: SELECT ... WHERE id = $1; sql.ErrNoRows is (nil, nil), which the
\* handler answers with 404, any other error is returned and answered 500.
GetByID_Query(p) ==
    /\ pc[p] = "GetByID_Query"
    /\ \E up \in BOOLEAN :
        IF ~up
          THEN Finish(p, Ret("err", ZeroBook, <<>>, ErrUnavailable),
                      Resp(StatusInternalServerError, "Failed to fetch book"),
                      Op("db.query", FALSE))
        ELSE IF RowsOf(db, req[p].id) = {}
          THEN Finish(p, Ret("absent", ZeroBook, <<>>, ""),
                      Resp(StatusNotFound, "Book not found"), Op("db.query", TRUE))
        ELSE \E b \in RowsOf(db, req[p].id) :
                Step(p, "GetByID_Set", Local(b, <<>>), Op("db.query", TRUE))
    /\ UNCHANGED <<db, cache, now, returned, listOrigin>>

\* Mutant: GetByID returns the error of a failed cache.Set.
GetByID_Set_Surfacing(p) ==
    /\ pc[p] = "GetByID_Set"
    /\ \E up \in BOOLEAN :
        /\ cache' = IF up
                      THEN [cache EXCEPT ![CacheKey(req[p].id)] =
                                Entry(MarshalBook(loc[p].book))]
                      ELSE cache
        /\ IF up
             THEN Finish(p, Ret("book", loc[p].book, <<>>, ""), Resp(StatusOK, ""),
                         Op("cache.set", up))
             ELSE Finish(p, Ret("err", ZeroBook, <<>>, "cache unavailable"),
                         Resp(StatusInternalServerError, "Failed to fetch book"),
                         Op("cache.set", up))
    /\ UNCHANGED <<db, now, returned, listOrigin>>

\* Mutant: GetByID writes the book under books:all.
GetByID_Set_ListKey(p) ==
    /\ pc[p] = "GetByID_Set"
    /\ \E up \in BOOLEAN :
        /\ cache' = IF up
                      THEN [cache EXCEPT ![ListKey] = Entry(MarshalBook(loc[p].book))]
                      ELSE cache
        /\ Finish(p, Ret("book", loc[p].book, <<>>, ""), Resp(StatusOK, ""),
                  Op("cache.set", up))
    /\ UNCHANGED <<db, now, returned, listOrigin>>

\* GetByID: cache.Set of book:<id>, outcome ignored; the book is returned.
GetByID_Set(p) ==
    /\ pc[p] = "GetByID_Set"
    /\ \E up \in BOOLEAN :
        /\ cache' = IF up
                      THEN [cache EXCEPT ![CacheKey(req[p].id)] =
                                Entry(MarshalBook(loc[p].book))]
                      ELSE cache
        /\ Finish(p, Ret("book", loc[p].book, <<>>, ""), Resp(StatusOK, ""),
                  Op("cache.set", up))
    /\ UNCHANGED <<db, now, returned, listOrigin>>

\* List: cache.Get of books:all.
List_Get(p) ==
    /\ pc[p] = "List_Get"
    /\ \E up \in BOOLEAN :
        LET e == cache[ListKey] IN
        IF up /\ e.present /\ WellFormedBooks(e.val)
          THEN Finish(p, Ret("books", ZeroBook, UnmarshalBooks(e.val), ""),
                      Resp(StatusOK, ""), Op("cache.get", TRUE))
          ELSE Step(p, "List_Query", loc[p], Op("cache.get", up /\ e.present))
    /\ UNCHANGED <<db, cache, now, returned, listOrigin>>

\* List: SELECT ... ORDER BY created_at DESC and the rows.Next loop.  The
\* query may fail ("query") and a rows.Scan may fail ("scan"): both return
\* the error.  When the connection fails during the iteration ("next"),
\* rows.Next returns false after n rows; rows.Err is not consulted, so the
\* loop ends as if the result were complete.
List_Query(p) ==
    /\ pc[p] = "List_Query"
    /\ \E outcome \in {"ok", "query", "scan", "next"} :
        IF outcome = "query"
          THEN Finish(p, Ret("err", ZeroBook, <<>>, ErrUnavailable),
                      Resp(StatusInternalServerError, "Failed to fetch books"),
                      Op("db.query", FALSE))
        ELSE IF outcome = "scan"
          THEN /\ db # {}
               /\ Finish(p, Ret("err", ZeroBook, <<>>, ErrUnavailable),
                      Resp(StatusInternalServerError, "Failed to fetch books"),
                      Op("db.query", TRUE) \o Op("db.scan", FALSE))
        ELSE \E s \in Orderings(db) :
             \E n \in 0..Len(s) :
                /\ outcome = "ok" => n = Len(s)
                /\ outcome = "next" => n < Len(s)
                /\ Step(p, "List_Set", Local(ZeroBook, SubSeq(s, 1, n)),
                        Op("db.query", TRUE) \o Op("db.next", outcome = "ok"))
    /\ UNCHANGED <<db, cache, now, returned, listOrigin>>

\* List: cache.Set of books:all, outcome ignored; the books are returned.
List_Set(p) ==
    /\ pc[p] = "List_Set"
    /\ \E up \in BOOLEAN :
        /\ cache' = IF up
                      THEN [cache EXCEPT ![ListKey] =
                                Entry(MarshalBooks(loc[p].books))]
                      ELSE cache
        /\ listOrigin' = IF ~up THEN listOrigin
                         ELSE IF Failed(ops[p], "db.next") THEN "partial" ELSE "full"
        /\ Finish(p, Ret("books", ZeroBook, loc[p].books, ""), Resp(StatusOK, ""),
                  Op("cache.set", up))
    /\ UNCHANGED <<db, now, returned>>

\* ------------------------------------------------- GET /ready: ReadyHandler
ReadyHandler(p, R) ==
    /\ Free(p)
    /\ \E r \in R :
        /\ ServeMux(r.path) = "ReadyHandler"
        /\ IF r.method # "GET"
              THEN Answer(p, r, NoRet, Resp(StatusMethodNotAllowed, "Method not allowed"))
              ELSE Begin(p, r, "CheckDBHealth", NoLocal, {})
    /\ UNCHANGED <<db, cache, now, returned, listOrigin>>

\* Mutant: the store's failure does not end the probe.
CheckDBHealth_NoShortCircuit(p) ==
    /\ pc[p] = "CheckDBHealth"
    /\ \E up \in BOOLEAN :
        Step(p, "CheckRedisHealth", loc[p], Op("db.ping", up))
    /\ UNCHANGED <<db, cache, now, returned, listOrigin>>

\* db.PingContext; a failure is answered 503 at once.
CheckDBHealth(p) ==
    /\ pc[p] = "CheckDBHealth"
    /\ \E up \in BOOLEAN :
        IF up
          THEN Step(p, "CheckRedisHealth", loc[p], Op("db.ping", TRUE))
          ELSE Finish(p, NoRet, Resp(StatusServiceUnavailable, "not ready: database check failed"),
                      Op("db.ping", FALSE))
    /\ UNCHANGED <<db, cache, now, returned, listOrigin>>

\* cache.Ping; 503 on failure, 200 "ready" otherwise.
CheckRedisHealth(p) ==
    /\ pc[p] = "CheckRedisHealth"
    /\ \E up \in BOOLEAN :
        IF up
          THEN Finish(p, NoRet, Resp(StatusOK, "ready"), Op("cache.ping", TRUE))
          ELSE Finish(p, NoRet, Resp(StatusServiceUnavailable, "not ready: cache check failed"),
                      Op("cache.ping", FALSE))
    /\ UNCHANGED <<db, cache, now, returned, listOrigin>>

\* ------------------------------------------------ GET /health: HealthHandler
\* Mutant: the liveness endpoint runs the readiness checks.
HealthHandler_Probing(p, R) ==
    /\ Free(p)
    /\ \E r \in R :
        /\ ServeMux(r.path) = "HealthHandler"
        /\ IF r.method # "GET"
              THEN Answer(p, r, NoRet, Resp(StatusMethodNotAllowed, "Method not allowed"))
              ELSE Begin(p, r, "CheckDBHealth", NoLocal, {})
    /\ UNCHANGED <<db, cache, now, returned, listOrigin>>

HealthHandler(p, R) ==
    /\ Free(p)
    /\ \E r \in R :
        /\ ServeMux(r.path) = "HealthHandler"
        /\ IF r.method # "GET"
              THEN Answer(p, r, NoRet, Resp(StatusMethodNotAllowed, "Method not allowed"))
              ELSE Answer(p, r, NoRet, Resp(StatusOK, "healthy"))
    /\ UNCHANGED <<db, cache, now, returned, listOrigin>>

\* ------------------------------------------------------------ environment
\* Time passes.
Tick ==
    /\ now < MaxClock
    /\ now' = now + 1
    /\ done' = NoDone
    /\ UNCHANGED <<db, cache, pc, req, loc, ops, returned, snap, listOrigin>>

\* Redis drops an entry: its expiry has come, or it is evicted.
Expire(k) ==
    /\ cache[k].present
    /\ cache' = [cache EXCEPT ![k] = NoEntry]
    /\ listOrigin' = IF k = ListKey THEN "none" ELSE listOrigin
    /\ done' = NoDone
    /\ UNCHANGED <<db, now, pc, req, loc, ops, returned, snap>>

\* The value under a key is damaged so that it no longer decodes.
Corrupt(k) ==
    /\ cache[k].present
    /\ cache[k].val # Malformed
    /\ cache' = [cache EXCEPT ![k].val = Malformed]
    /\ done' = NoDone
    /\ UNCHANGED <<db, now, pc, req, loc, ops, returned, snap, listOrigin>>

\* The clock of the timed runs: time passes, and Redis drops the books:all
\* entry when the TTL it was written with has run out.
Tick_Expiring ==
    /\ now < MaxClock
    /\ now' = now + 1
    /\ LET out == cache[ListKey].present /\ listSetAt + TTL <= now + 1 IN
        /\ cache' = IF out THEN [cache EXCEPT ![ListKey] = NoEntry] ELSE cache
        /\ listOrigin' = IF out THEN "none" ELSE listOrigin
        /\ listSetAt' = IF out THEN -1 ELSE listSetAt
    /\ done' = NoDone
    /\ UNCHANGED <<db, pc, req, loc, ops, returned, snap, lastGet, lifecycle, commitAt>>

\* The history of the timed runs, kept by the steps of Create and List: when
\* a row was committed, and when the books:all entry was written.
Stamp ==
    /\ commitAt' = IF db' # db
                      THEN [commitAt EXCEPT ![(CHOOSE b \in db' \ db : TRUE).id] = now]
                      ELSE commitAt
    /\ listSetAt' = IF /\ done'.p # ""
                       /\ done'.ret.kind = "books"
                       /\ done'.ops[Len(done'.ops)].name = "cache.set"
                       /\ done'.ops[Len(done'.ops)].ok
                       THEN now
                     ELSE IF ~cache'[ListKey].present THEN -1
                     ELSE listSetAt

\* ------------------------------------------------------- process lifecycle
\* main receives SIGINT or SIGTERM and calls server.Shutdown with a context
\* of 30 seconds: the listener is closed.
Signal ==
    /\ server = "serving"
    /\ server' = "draining"
    /\ done' = NoDone
    /\ UNCHANGED <<db, cache, now, pc, req, loc, ops, returned, snap, listOrigin,
                   lastGet, graceOver, conns, exitCode, timing>>

\* The deadline of Shutdown's context passes.
GraceExpires ==
    /\ server = "draining"
    /\ ~graceOver
    /\ graceOver' = TRUE
    /\ done' = NoDone
    /\ UNCHANGED <<db, cache, now, pc, req, loc, ops, returned, snap, listOrigin,
                   lastGet, server, conns, exitCode, timing>>

\* No request is in flight: Shutdown returns nil, main returns, the deferred
\* db.Close runs and the process exits, which closes what is still open.
Shutdown_Drained ==
    /\ server = "draining"
    /\ \A p \in Procs : pc[p] = "idle"
    /\ server' = "exited"
    /\ exitCode' = 0
    /\ conns' = {}
    /\ done' = NoDone
    /\ UNCHANGED <<db, cache, now, pc, req, loc, ops, returned, snap, listOrigin,
                   lastGet, graceOver, timing>>

\* Mutant: the process exits without waiting for the deadline.
Shutdown_Forced_NoGrace ==
    /\ server = "draining"
    /\ \E p \in Procs : pc[p] # "idle"
    /\ server' = "exited"
    /\ exitCode' = 1
    /\ conns' = {}
    /\ pc' = [p \in Procs |-> "idle"]
    /\ req' = [p \in Procs |-> NoRequest]
    /\ loc' = [p \in Procs |-> NoLocal]
    /\ ops' = [p \in Procs |-> <<>>]
    /\ snap' = [p \in Procs |-> {}]
    /\ done' = NoDone
    /\ UNCHANGED <<db, cache, now, returned, listOrigin, lastGet, graceOver, timing>>

\* The deadline has passed with a request in flight: Shutdown returns the
\* context's error and log.Fatalf exits the process; the requests in flight
\* end with it.
Shutdown_Forced ==
    /\ server = "draining"
    /\ graceOver
    /\ \E p \in Procs : pc[p] # "idle"
    /\ server' = "exited"
    /\ exitCode' = 1
    /\ conns' = {}
    /\ pc' = [p \in Procs |-> "idle"]
    /\ req' = [p \in Procs |-> NoRequest]
    /\ loc' = [p \in Procs |-> NoLocal]
    /\ ops' = [p \in Procs |-> <<>>]
    /\ snap' = [p \in Procs |-> {}]
    /\ done' = NoDone
    /\ UNCHANGED <<db, cache, now, returned, listOrigin, lastGet, graceOver, timing>>

\* The history variable lastGet: GetByID's latest answer that is no store
\* error, kept per id until the store is next written.
AnswersGetByID(d) ==
    /\ d.p # ""
    /\ d.req.method = "GET"
    /\ ServeMux(d.req.path) = "GetBook"
    /\ d.req.id # ""

Remember ==
    lastGet' = IF AnswersGetByID(done') /\ done'.ret.kind # "err"
                 THEN done'.req.id :> done'.ret
               ELSE IF db' # db THEN NoRequest.id :> NoRet
               ELSE lastGet

\* One client sending every kind of request, one request at a time.
Next ==
    \/ CreateBook("p1", Requests) /\ Remember /\ UNCHANGED <<lifecycle, timing>>
    \/ Create_Insert("p1") /\ Remember /\ UNCHANGED <<lifecycle, timing>>
    \/ Create_Set("p1") /\ Remember /\ UNCHANGED <<lifecycle, timing>>
    \/ Create_Del("p1") /\ Remember /\ UNCHANGED <<lifecycle, timing>>
    \/ GetBook("p1", Requests) /\ Remember /\ UNCHANGED <<lifecycle, timing>>
    \/ GetByID_Get("p1") /\ Remember /\ UNCHANGED <<lifecycle, timing>>
    \/ GetByID_Query("p1") /\ Remember /\ UNCHANGED <<lifecycle, timing>>
    \/ GetByID_Set("p1") /\ Remember /\ UNCHANGED <<lifecycle, timing>>
    \/ List_Get("p1") /\ Remember /\ UNCHANGED <<lifecycle, timing>>
    \/ List_Query("p1") /\ Remember /\ UNCHANGED <<lifecycle, timing>>
    \/ List_Set("p1") /\ Remember /\ UNCHANGED <<lifecycle, timing>>
    \/ ReadyHandler("p1", Requests) /\ Remember /\ UNCHANGED <<lifecycle, timing>>
    \/ CheckDBHealth("p1") /\ Remember /\ UNCHANGED <<lifecycle, timing>>
    \/ CheckRedisHealth("p1") /\ Remember /\ UNCHANGED <<lifecycle, timing>>
    \/ HealthHandler("p1", Requests) /\ Remember /\ UNCHANGED <<lifecycle, timing>>
    \/ Tick /\ Remember /\ UNCHANGED <<lifecycle, timing>>
    \/ (\E k \in CacheKeys : Expire(k)) /\ Remember /\ UNCHANGED <<lifecycle, timing>>
    \/ (\E k \in CacheKeys : Corrupt(k)) /\ Remember /\ UNCHANGED <<lifecycle, timing>>

Spec == Init /\ [][Next]_vars

\* Concurrent requests to the repository; lastGet is not kept.
NextConc ==
    \/ (\E p \in Procs : CreateBook(p, RepoRequests)) /\ UNCHANGED <<lastGet, lifecycle, timing>>
    \/ (\E p \in Procs : Create_Insert(p)) /\ UNCHANGED <<lastGet, lifecycle, timing>>
    \/ (\E p \in Procs : Create_Set(p)) /\ UNCHANGED <<lastGet, lifecycle, timing>>
    \/ (\E p \in Procs : Create_Del(p)) /\ UNCHANGED <<lastGet, lifecycle, timing>>
    \/ (\E p \in Procs : GetBook(p, RepoRequests)) /\ UNCHANGED <<lastGet, lifecycle, timing>>
    \/ (\E p \in Procs : GetByID_Get(p)) /\ UNCHANGED <<lastGet, lifecycle, timing>>
    \/ (\E p \in Procs : GetByID_Query(p)) /\ UNCHANGED <<lastGet, lifecycle, timing>>
    \/ (\E p \in Procs : GetByID_Set(p)) /\ UNCHANGED <<lastGet, lifecycle, timing>>
    \/ (\E p \in Procs : List_Get(p)) /\ UNCHANGED <<lastGet, lifecycle, timing>>
    \/ (\E p \in Procs : List_Query(p)) /\ UNCHANGED <<lastGet, lifecycle, timing>>
    \/ (\E p \in Procs : List_Set(p)) /\ UNCHANGED <<lastGet, lifecycle, timing>>
    \/ Tick /\ UNCHANGED <<lastGet, lifecycle, timing>>
    \/ (\E k \in CacheKeys : Expire(k)) /\ UNCHANGED <<lastGet, lifecycle, timing>>

SpecConc == Init /\ [][NextConc]_vars

\* Concurrent Create and GetByID requests, every valid book, with entries
\* expiring and damaged.
ByIDRequests ==
    {r \in Requests :
        \/ r.method = "GET" /\ r.path = "/books/" /\ r.id # ""
        \/ r.method = "POST" /\ r.path = "/books" /\ r.bodyOK /\ Validate(r.body) = ""}

NextByID ==
    \/ (\E p \in Procs : CreateBook(p, ByIDRequests)) /\ UNCHANGED <<lastGet, lifecycle, timing>>
    \/ (\E p \in Procs : Create_Insert(p)) /\ UNCHANGED <<lastGet, lifecycle, timing>>
    \/ (\E p \in Procs : Create_Set(p)) /\ UNCHANGED <<lastGet, lifecycle, timing>>
    \/ (\E p \in Procs : Create_Del(p)) /\ UNCHANGED <<lastGet, lifecycle, timing>>
    \/ (\E p \in Procs : GetBook(p, ByIDRequests)) /\ UNCHANGED <<lastGet, lifecycle, timing>>
    \/ (\E p \in Procs : GetByID_Get(p)) /\ UNCHANGED <<lastGet, lifecycle, timing>>
    \/ (\E p \in Procs : GetByID_Query(p)) /\ UNCHANGED <<lastGet, lifecycle, timing>>
    \/ (\E p \in Procs : GetByID_Set(p)) /\ UNCHANGED <<lastGet, lifecycle, timing>>
    \/ (\E k \in CacheKeys : Expire(k)) /\ UNCHANGED <<lastGet, lifecycle, timing>>
    \/ (\E k \in CacheKeys : Corrupt(k)) /\ UNCHANGED <<lastGet, lifecycle, timing>>

SpecByID == Init /\ [][NextByID]_vars

\* Concurrent Create and List requests with the clock and the TTL of
\* books:all.
TimedRequests ==
    {r \in RepoRequests : r.method = "POST" \/ r.id = ""}

NextTimed ==
    \/ (\E p \in Procs : CreateBook(p, TimedRequests)) /\ Stamp /\ UNCHANGED <<lastGet, lifecycle>>
    \/ (\E p \in Procs : Create_Insert(p)) /\ Stamp /\ UNCHANGED <<lastGet, lifecycle>>
    \/ (\E p \in Procs : Create_Set(p)) /\ Stamp /\ UNCHANGED <<lastGet, lifecycle>>
    \/ (\E p \in Procs : Create_Del(p)) /\ Stamp /\ UNCHANGED <<lastGet, lifecycle>>
    \/ (\E p \in Procs : GetBook(p, TimedRequests)) /\ Stamp /\ UNCHANGED <<lastGet, lifecycle>>
    \/ (\E p \in Procs : List_Get(p)) /\ Stamp /\ UNCHANGED <<lastGet, lifecycle>>
    \/ (\E p \in Procs : List_Query(p)) /\ Stamp /\ UNCHANGED <<lastGet, lifecycle>>
    \/ (\E p \in Procs : List_Set(p)) /\ Stamp /\ UNCHANGED <<lastGet, lifecycle>>
    \/ Tick_Expiring

SpecTimed == Init /\ [][NextTimed]_vars

\* The process from start to exit: requests to every handler for one book,
\* the termination signal, the grace period and the exit.  The runtime
\* schedules main and the timer of the context, so neither waits forever.
LifeRequests ==
    {r \in Requests :
        \/ r.method = "GET" /\ r.path \in {"/ready", "/health"}
        \/ r.method = "GET" /\ r.path = "/books/" /\ r.id = "1"
        \/ r.method = "POST" /\ r.path = "/books" /\ r.bodyOK
              /\ r.body = Book("1", "a", 5, 0)}

NextLife ==
    \/ (\E p \in Procs : CreateBook(p, LifeRequests)) /\ UNCHANGED <<lastGet, lifecycle, timing>>
    \/ (\E p \in Procs : Create_Insert(p)) /\ UNCHANGED <<lastGet, lifecycle, timing>>
    \/ (\E p \in Procs : Create_Set(p)) /\ UNCHANGED <<lastGet, lifecycle, timing>>
    \/ (\E p \in Procs : Create_Del(p)) /\ UNCHANGED <<lastGet, lifecycle, timing>>
    \/ (\E p \in Procs : GetBook(p, LifeRequests)) /\ UNCHANGED <<lastGet, lifecycle, timing>>
    \/ (\E p \in Procs : GetByID_Get(p)) /\ UNCHANGED <<lastGet, lifecycle, timing>>
    \/ (\E p \in Procs : GetByID_Query(p)) /\ UNCHANGED <<lastGet, lifecycle, timing>>
    \/ (\E p \in Procs : GetByID_Set(p)) /\ UNCHANGED <<lastGet, lifecycle, timing>>
    \/ (\E p \in Procs : ReadyHandler(p, LifeRequests)) /\ UNCHANGED <<lastGet, lifecycle, timing>>
    \/ (\E p \in Procs : CheckDBHealth(p)) /\ UNCHANGED <<lastGet, lifecycle, timing>>
    \/ (\E p \in Procs : CheckRedisHealth(p)) /\ UNCHANGED <<lastGet, lifecycle, timing>>
    \/ (\E p \in Procs : HealthHandler(p, LifeRequests)) /\ UNCHANGED <<lastGet, lifecycle, timing>>
    \/ (\E k \in CacheKeys : Expire(k)) /\ UNCHANGED <<lastGet, lifecycle, timing>>
    \/ Signal
    \/ GraceExpires
    \/ Shutdown_Drained
    \/ Shutdown_Forced

SpecLife ==
    /\ Init
    /\ [][NextLife]_vars
    /\ WF_vars(GraceExpires)
    /\ WF_vars(Shutdown_Drained)
    /\ WF_vars(Shutdown_Forced)

TypeOK ==
    /\ now \in 0..MaxClock
    /\ \A b \in db : b.id \in Ids
    /\ done.resp.status \in {0, StatusOK, StatusCreated, StatusBadRequest,
            StatusNotFound, StatusMethodNotAllowed, StatusInternalServerError,
            StatusServiceUnavailable}

\* ===================================================================== claims
\* The step just taken answered a request.
Answered == done.p # ""

\* ... a POST /books with a decodable body: a call of BookService.CreateBook.
CreateAnswered ==
    /\ Answered
    /\ done.req.method = "POST"
    /\ done.req.path = "/books"
    /\ done.req.bodyOK

\* ... a call of GetByID, a call of List.
GetAnswered == AnswersGetByID(done)

ListAnswered ==
    /\ Answered
    /\ done.req.method = "GET"
    /\ done.req.path = "/books/"
    /\ done.req.id = ""

\* A record the claims call valid: non-empty title, rating in [0,5].
ValidRecord(r) == r.title # "" /\ r.rating >= 0 /\ r.rating <= 5

\* Equal in id, title and rating.
SameRecord(b, r) == b.id = r.id /\ b.title = r.title /\ b.rating = r.rating

\* The sequence bs contains b.
Contains(bs, b) == \E i \in 1..Len(bs) : bs[i] = b

\* What a GetByID(id) that starts now, runs undisturbed and meets no failing
\* call returns: the well-formed cached value, else the store's row.
GetByIDNow(id) ==
    LET e == cache[CacheKey(id)] IN
    IF e.present /\ WellFormedBook(e.val) THEN Ret("book", UnmarshalBook(e.val), <<>>, "")
    ELSE IF RowsOf(db, id) = {} THEN Ret("absent", ZeroBook, <<>>, "")
    ELSE Ret("book", CHOOSE b \in RowsOf(db, id) : TRUE, <<>>, "")

\* C1 (as stated): for every valid record r, after CreateBook(r) has been
\* answered (the store being reachable), GetBook(r.id) returns a record equal
\* to r in id, title and rating, whatever the store held before.
C1_Original ==
    (CreateAnswered /\ ValidRecord(done.req.body) /\ done.ret.err # ErrUnavailable)
        => /\ GetByIDNow(done.req.body.id).kind = "book"
           /\ SameRecord(GetByIDNow(done.req.body.id).book, done.req.body)

\* C1 (amended): a GetByID(id) that arrives after a Create of a record r with
\* that id has returned nil, and that does not end in a store error, returns
\* exactly the record Create returned (r with the store's creation timestamp),
\* whether it is served from the cache or from the store.
C1_CreateThenGet ==
    (GetAnswered /\ done.ret.kind # "err" /\ done.snap # {})
        => /\ done.ret.kind = "book"
           /\ done.ret.book \in done.snap
           /\ \E r \in Requests :
                 r.bodyOK /\ ValidRecord(r.body) /\ SameRecord(done.ret.book, r.body)

\* C1 witness: such a GetByID, answered from the store because the cache
\* lookup failed or missed.
C1_Witness ==
    /\ GetAnswered
    /\ done.snap # {}
    /\ done.ret.kind = "book"
    /\ ~done.ops[1].ok
    /\ done.ret.book.created_at > 0

\* C2: a CreateBook call with an empty title or a rating outside [0,5] is
\* answered with an error in the step in which it arrives, having issued no
\* store or cache call, and leaves the store and every cache entry unchanged.
C2_RejectedBeforeIO ==
    [][(/\ done'.p # ""
        /\ done'.req.method = "POST"
        /\ done'.req.path = "/books"
        /\ done'.req.bodyOK
        /\ ~ValidRecord(done'.req.body))
            => /\ done'.ret.kind = "err"
               /\ done'.ops = <<>>
               /\ pc' = pc
               /\ db' = db
               /\ cache' = cache]_vars

\* C2 witness: an invalid record rejected while the store and the cache hold
\* data.
C2_Witness ==
    /\ CreateAnswered
    /\ ~ValidRecord(done.req.body)
    /\ done.resp.status = StatusBadRequest
    /\ db # {}
    /\ cache[ListKey].present
    /\ cache[CacheKey(done.req.body.id)].present

\* C3 (as stated, and granting more than it asks: malformed values, a
\* books:all entry that survived a failed Del or was written from an
\* interrupted iteration, and the moment between a Create's insert and its
\* Del are all excused): every cache entry equals what the store holds.
C3_Original ==
    /\ \A i \in Ids :
          (cache[CacheKey(i)].present /\ WellFormedBook(cache[CacheKey(i)].val))
              => UnmarshalBook(cache[CacheKey(i)].val) \in db
    /\ (/\ cache[ListKey].present
        /\ WellFormedBooks(cache[ListKey].val)
        /\ listOrigin = "full"
        /\ \A p \in Procs : pc[p] \notin {"Create_Set", "Create_Del"})
            => UnmarshalBooks(cache[ListKey].val) \in Orderings(db)

\* C4 (as stated): when Create has returned nil, books:all holds no entry.
C4_Original ==
    (CreateAnswered /\ done.ret.kind = "ok") => ~cache[ListKey].present

\* C4 (amended): when Create returns nil and its Del of books:all did not
\* fail, books:all holds no entry at that moment, whatever it held before.
C4_InvalidatedUnlessDelFailed ==
    (CreateAnswered /\ done.ret.kind = "ok" /\ ~Failed(done.ops, "cache.del"))
        => ~cache[ListKey].present

\* C4 witness: a Create whose Del removed an entry that was there.
C4_Witness ==
    /\ CreateAnswered
    /\ done.ret.kind = "ok"
    /\ done.ops[3].name = "cache.del"
    /\ done.ops[3].ok
    /\ done.ops[3].n = 1

\* C5 (as stated, excusing a books:all entry that survived a failed Del or
\* came from an interrupted iteration): a List that arrives after a Create
\* has returned nil returns a sequence containing the created book.
C5_Original ==
    (/\ ListAnswered
     /\ done.ret.kind = "books"
     /\ ~Failed(done.ops, "db.next")
     /\ listOrigin \notin {"partial", "left"})
        => \A b \in done.snap : Contains(done.ret.books, b)

\* bs is the start of some descending ordering of the store's rows, and all
\* of it when whole is asked.
ReadFromStore(bs, whole) ==
    \E s \in Orderings(db) :
        /\ Len(bs) <= Len(s)
        /\ bs = SubSeq(s, 1, Len(bs))
        /\ whole => Len(bs) = Len(s)

\* C6: what Create, GetByID and List return is decided by the store alone.
\* Create returns nil exactly when its insert succeeded, whatever became of
\* its cache.Set and cache.Del; a GetByID or List that was not served by a
\* well-formed cached value (the lookup failed, missed, or found a malformed
\* value) returns the store's error, or else what the store holds, whatever
\* became of its cache.Set: the answers of a run with an empty cache.
C6_CacheFailuresNeverSurface ==
    /\ (CreateAnswered /\ done.ops # <<>>)
          => IF Failed(done.ops, "db.insert")
               THEN done.ret.kind = "err"
               ELSE done.ret.kind = "ok" /\ done.ret.book \in RowsOf(db, done.req.body.id)
    /\ (GetAnswered /\ Len(done.ops) > 1)
          => IF Failed(done.ops, "db.query") THEN done.ret.kind = "err"
             ELSE IF RowsOf(db, done.req.id) = {} THEN done.ret.kind = "absent"
             ELSE done.ret.kind = "book" /\ done.ret.book \in RowsOf(db, done.req.id)
    /\ (ListAnswered /\ Len(done.ops) > 1)
          => IF Failed(done.ops, "db.query") \/ Failed(done.ops, "db.scan")
               THEN done.ret.kind = "err"
               ELSE /\ done.ret.kind = "books"
                    /\ ReadFromStore(done.ret.books, ~Failed(done.ops, "db.next"))

\* C6 witness: a GetByID that found a malformed value in the cache, read the
\* store, failed to write the cache, and returned the book.
C6_Witness ==
    /\ GetAnswered
    /\ Len(done.ops) = 3
    /\ done.ops[1].ok
    /\ cache[CacheKey(done.req.id)].val = Malformed
    /\ Failed(done.ops, "cache.set")
    /\ done.ret.kind = "book"

\* C7 (as stated): GET /books?id=<id> is answered 200 with the record, 404
\* or 500, and GET /books without id is answered 200 with the list.
C7_Original ==
    (Answered /\ done.req.method = "GET" /\ done.req.path = "/books")
        => IF done.req.id = ""
             THEN done.resp.status = StatusOK /\ done.ret.kind = "books"
             ELSE \/ done.resp.status = StatusOK /\ done.ret.kind = "book"
                  \/ done.resp.status = StatusNotFound /\ done.ret.kind = "absent"
                  \/ done.resp.status = StatusInternalServerError /\ done.ret.kind = "err"

\* C8 (as stated): a POST /books whose store insert fails is answered with a
\* 5xx status.
C8_Original ==
    (CreateAnswered /\ Failed(done.ops, "db.insert")) => done.resp.status >= 500

\* The step just taken answered a GET /ready.
ReadyAnswered ==
    /\ Answered
    /\ done.req.method = "GET"
    /\ done.req.path = "/ready"

\* C9: the readiness probe pings the store first; when that fails it pings
\* nothing else and answers 503 naming the database; otherwise it pings the
\* cache and answers 503 naming the cache when that fails and 200 "ready"
\* when it succeeds.
C9_ReadinessOrder ==
    ReadyAnswered =>
        /\ Len(done.ops) >= 1
        /\ done.ops[1].name = "db.ping"
        /\ IF ~done.ops[1].ok
             THEN /\ Len(done.ops) = 1
                  /\ done.resp = Resp(StatusServiceUnavailable, "not ready: database check failed")
             ELSE /\ Len(done.ops) = 2
                  /\ done.ops[2].name = "cache.ping"
                  /\ IF done.ops[2].ok
                       THEN done.resp = Resp(StatusOK, "ready")
                       ELSE done.resp =
                                Resp(StatusServiceUnavailable, "not ready: cache check failed")

\* C9 witness: the store is reachable, the cache is not.
C9_Witness ==
    /\ ReadyAnswered
    /\ Len(done.ops) = 2
    /\ ~done.ops[2].ok
    /\ done.resp.status = StatusServiceUnavailable

\* C10 (as stated): a GetByID(id) answered after an earlier GetByID(id), with
\* no insert in between, returns what the earlier one returned.
C10_Original ==
    [][(AnswersGetByID(done') /\ DOMAIN lastGet = {done'.req.id})
            => done'.ret = lastGet[done'.req.id]]_vars

\* C10 (amended): the same, for a GetByID that does not end in a store error.
C10_RepeatedGet ==
    [][(AnswersGetByID(done') /\ DOMAIN lastGet = {done'.req.id}
            /\ done'.ret.kind # "err")
            => done'.ret = lastGet[done'.req.id]]_vars

\* C10 witness: after a GetByID returned a book, a second GetByID for the
\* same id found the cache unreachable or the entry gone, read the store and
\* is about to return.
C10_Witness ==
    /\ pc["p1"] = "GetByID_Set"
    /\ DOMAIN lastGet = {req["p1"].id}
    /\ lastGet[req["p1"].id].kind = "book"
    /\ ~ops["p1"][1].ok

\* The entry under book:<id> decodes to book b.
Caches(id, b) ==
    /\ cache[CacheKey(id)].present
    /\ WellFormedBook(cache[CacheKey(id)].val)
    /\ UnmarshalBook(cache[CacheKey(id)].val) = b

\* C11 (as stated): when GetByID has returned a book read from the store,
\* its cache lookup having found nothing, book:<id> holds that book.
C11_Original ==
    (GetAnswered /\ done.ret.kind = "book" /\ Len(done.ops) = 3 /\ ~done.ops[1].ok)
        => Caches(done.req.id, done.ret.book)

\* C11 (amended): when GetByID has returned a book read from the store
\* (the lookup missed, failed or found a malformed value) and its cache.Set
\* did not fail, book:<id> holds that book at that moment.
C11_PopulatedUnlessSetFailed ==
    (GetAnswered /\ done.ret.kind = "book" /\ Len(done.ops) = 3
        /\ ~Failed(done.ops, "cache.set"))
        => Caches(done.req.id, done.ret.book)

\* C11 witness: a GetByID that missed the cache, read the store and wrote
\* the entry.
C11_Witness ==
    /\ GetAnswered
    /\ Len(done.ops) = 3
    /\ ~done.ops[1].ok
    /\ done.ops[3].ok
    /\ Caches(done.req.id, done.ret.book)

\* C12: once the termination signal is received no request is accepted (no
\* slot takes a request and no request is answered on arrival); a request in
\* flight leaves its slot only by being answered, or by the forced exit
\* (status 1) after the grace period has run out; the process exits with
\* status 0 only when no request is in flight; an exited process holds no
\* store or cache connection; and a process that received the signal
\* eventually exits.
C12_GracefulShutdown ==
    /\ [][/\ server # "serving"
              => /\ \A p \in Procs : pc[p] = "idle" => pc'[p] = "idle"
                 /\ done'.p # "" => done'.ops # <<>>
          /\ \A p \in Procs :
                (server = "draining" /\ pc[p] # pc'[p] /\ pc'[p] = "idle")
                    => \/ done'.p = p /\ done'.req = req[p] /\ server' = "draining"
                       \/ server' = "exited" /\ graceOver /\ exitCode' = 1
          /\ (server' = "exited" /\ server # "exited")
                => /\ server = "draining"
                   /\ exitCode' = 0 <=> \A p \in Procs : pc[p] = "idle"]_vars
    /\ [](server = "exited" => conns = {} /\ exitCode \in {0, 1})
    /\ (server = "draining") ~> (server = "exited")

\* C12 witness: a Create in flight when the signal came is answered 201
\* during the grace period, while another request is still in flight.
C12_Witness ==
    /\ server = "draining"
    /\ ~graceOver
    /\ CreateAnswered
    /\ done.resp.status = StatusCreated
    /\ \E p \in Procs : pc[p] # "idle"

\* The step just taken answered a GET /health.
HealthAnswered ==
    /\ Answered
    /\ done.req.method = "GET"
    /\ done.req.path = "/health"

\* C13: while the process is serving and a slot is free, a GET /health can
\* be answered; it is answered 200 "healthy" in the step in which it
\* arrives, with no store or cache call issued and the store and the cache
\* unchanged.
C13_LivenessUnconditional ==
    /\ [][(done'.p # "" /\ done'.req.method = "GET" /\ done'.req.path = "/health")
              => /\ done'.resp = Resp(StatusOK, "healthy")
                 /\ done'.ops = <<>>
                 /\ pc' = pc
                 /\ db' = db
                 /\ cache' = cache]_vars
    /\ [](\A p \in Procs :
            (server = "serving" /\ pc[p] = "idle")
                => ENABLED (/\ HealthHandler(p, {Request("GET", "/health", "", FALSE, ZeroBook)})
                            /\ UNCHANGED <<lastGet, lifecycle, timing>>))

\* C13 witness: GET /health answered while the store and the cache hold a
\* book and another request is in the middle of its readiness checks.
C13_Witness ==
    /\ HealthAnswered
    /\ done.resp.status = StatusOK
    /\ db # {}
    /\ cache[CacheKey("1")].present
    /\ \E p \in Procs : pc[p] = "CheckRedisHealth"

\* C14 (as stated, and granting more than it asks: an entry written from an
\* interrupted iteration or left behind by a failed Del is excused): a
\* well-formed books:all entry that lacks a book whose Create has returned
\* nil is there only while less than one TTL has passed since the commit of
\* the book's row.
C14_Original ==
    \A b \in returned :
        (/\ cache[ListKey].present
         /\ WellFormedBooks(cache[ListKey].val)
         /\ listOrigin = "full"
         /\ ~Contains(UnmarshalBooks(cache[ListKey].val), b))
            => now < commitAt[b.id] + TTL

\* C15: the step of a Create that attempts the insert leaves the cache as
\* it is, and when the insert fails it ends the request with an error after
\* that one call; the steps of a Create that write the cache (Set of
\* book:<id>, Del of books:all) are taken only with the insert done and the
\* row in the store; an answered Create made its calls in the order insert,
\* Set, Del.
C15_StoreBeforeCache ==
    /\ [][\A p \in Procs :
            /\ (pc[p] = "Create_Insert" /\ pc'[p] # pc[p])
                  => /\ cache' = cache
                     /\ IF db' = db
                          THEN /\ done'.p = p
                               /\ done'.ret.kind = "err"
                               /\ done'.ops = Op("db.insert", FALSE)
                               /\ pc'[p] = "idle"
                          ELSE pc'[p] = "Create_Set"
            /\ (pc[p] \in {"Create_Set", "Create_Del"} /\ pc'[p] # pc[p])
                  => /\ ops[p][1] = Op("db.insert", TRUE)[1]
                     /\ loc[p].book \in db]_vars
    /\ []((CreateAnswered /\ done.ret.kind = "ok")
            => /\ Len(done.ops) = 3
               /\ done.ops[1].name = "db.insert"
               /\ done.ops[2].name = "cache.set"
               /\ done.ops[3].name = "cache.del")

\* C15 witness: a Create whose insert failed on the primary key while the
\* cache held no entry for the id; it returned the error and the entry is
\* still absent.
C15_Witness ==
    /\ CreateAnswered
    /\ done.ret.err = ErrConstraint
    /\ done.ops = Op("db.insert", FALSE)
    /\ ~cache[CacheKey(done.req.body.id)].present

\* C16 (as stated): a GetByID whose cache lookup is made while book:<id>
\* holds a well-formed value does not go on to the store.
C16_Original ==
    [][\A p \in Procs :
        (/\ pc[p] = "GetByID_Get"
         /\ pc'[p] # pc[p]
         /\ cache[CacheKey(req[p].id)].present
         /\ WellFormedBook(cache[CacheKey(req[p].id)].val))
            => pc'[p] # "GetByID_Query"]_vars

\* C16 (amended): a GetByID whose cache lookup returns a well-formed value
\* is answered with that value after that one call; it goes on to the store
\* only when the lookup failed, missed or returned a malformed value.  A
\* GetByID whose store query finds no row is answered absent with no error
\* (404) after the lookup and the query, and leaves the cache as it is.
C16_HitSkipsStoreAbsentSkipsCache ==
    [][\A p \in Procs :
        /\ (pc[p] = "GetByID_Get" /\ pc'[p] = "GetByID_Query")
              => \/ ~ops'[p][1].ok
                 \/ ~WellFormedBook(cache[CacheKey(req[p].id)].val)
        /\ (pc[p] = "GetByID_Get" /\ pc'[p] = "idle")
              => /\ done'.p = p
                 /\ done'.ops = Op("cache.get", TRUE)
                 /\ done'.ret.kind = "book"
                 /\ Caches(req[p].id, done'.ret.book)
                 /\ cache' = cache
        /\ (/\ pc[p] = "GetByID_Query"
            /\ pc'[p] # pc[p]
            /\ RowsOf(db, req[p].id) = {}
            /\ done'.ret.kind # "err")
              => /\ done'.p = p
                 /\ done'.ret = Ret("absent", ZeroBook, <<>>, "")
                 /\ done'.resp.status = StatusNotFound
                 /\ Len(done'.ops) = 2
                 /\ done'.ops[2] = Op("db.query", TRUE)[1]
                 /\ cache' = cache]_vars

\* C16 witness: a GetByID answered absent, after a cache lookup that failed or
\* missed, while the store and the cache hold another book.
C16_Witness ==
    /\ GetAnswered
    /\ done.ret.kind = "absent"
    /\ ~done.ops[1].ok
    /\ db # {}
    /\ \E i \in Ids : cache[CacheKey(i)].present
    /\ ~cache[CacheKey(done.req.id)].present

\* C17 (as stated): a List whose store read failed, at the query, at a scan
\* or while iterating, returns an error and no sequence, and is answered 500.
C17_Original ==
    (/\ ListAnswered
     /\ \/ Failed(done.ops, "db.query")
        \/ Failed(done.ops, "db.scan")
        \/ Failed(done.ops, "db.next"))
        => /\ done.ret.kind = "err"
           /\ done.ret.books = <<>>
           /\ done.resp.status = StatusInternalServerError
           /\ ~Failed(done.ops, "cache.set")
           /\ \A i \in 1..Len(done.ops) : done.ops[i].name # "cache.set"

\* Slot p holds a Create whose insert has succeeded and that has not
\* returned yet.
Inserted(p) == pc[p] \in {"Create_Set", "Create_Del"}

\* C18: the Creates that succeed for an id (those that have returned nil and
\* those past their insert) are at most one, and its book is the one row of
\* that id; rows are never changed or removed; and the insert of a Create
\* for an id that has a row fails: the Create is answered with an error
\* after that one call, leaving the store and every cache entry as they
\* were.
C18_AtMostOneCreatePerId ==
    /\ [](\A i \in Ids :
            /\ Cardinality(RowsOf(db, i)) <= 1
            /\ RowsOf(returned, i) \subseteq db
            /\ \A p \in Procs :
                  (Inserted(p) /\ loc[p].book.id = i)
                      => /\ RowsOf(db, i) = {loc[p].book}
                         /\ RowsOf(returned, i) = {}
                         /\ \A q \in Procs \ {p} :
                               ~(Inserted(q) /\ loc[q].book.id = i))
    /\ [][/\ db \subseteq db'
          /\ \A p \in Procs :
                (/\ pc[p] = "Create_Insert"
                 /\ pc'[p] # pc[p]
                 /\ RowsOf(db, loc[p].book.id) # {})
                    => /\ done'.p = p
                       /\ done'.ret.kind = "err"
                       /\ done'.resp.status >= 400
                       /\ done'.ops = Op("db.insert", FALSE)
                       /\ db' = db
                       /\ cache' = cache]_vars

\* C18 witness: of two concurrent Creates with the same id and different
\* ratings, one has inserted its row and has written the cache entry, the
\* other has just been answered with the constraint error.
C18_Witness ==
    /\ CreateAnswered
    /\ done.ret.err = ErrConstraint
    /\ \E q \in Procs :
          /\ pc[q] = "Create_Del"
          /\ loc[q].book.id = done.req.body.id
          /\ loc[q].book.rating # done.req.body.rating
          /\ Caches(done.req.body.id, loc[q].book)

\* C19: under concurrent Create and GetByID requests, with cache calls
\* failing and entries expiring or damaged, an entry under book:<id> is
\* there only when the store holds a row with that id, and a well-formed
\* entry decodes to that row.
C19_BookEntriesMatchStore ==
    \A i \in Ids :
        cache[CacheKey(i)].present
            => /\ RowsOf(db, i) # {}
               /\ WellFormedBook(cache[CacheKey(i)].val)
                     => UnmarshalBook(cache[CacheKey(i)].val) \in RowsOf(db, i)

\* C19 witness: a GetByID has just written the entry of one book from the
\* store while a Create of the other book has inserted its row and has not
\* written its entry yet.
C19_Witness ==
    /\ GetAnswered
    /\ Len(done.ops) = 3
    /\ done.ops[3].ok
    /\ Caches(done.req.id, done.ret.book)
    /\ \E q \in Procs :
          /\ pc[q] = "Create_Set"
          /\ loc[q].book.id # done.req.id
          /\ ~cache[CacheKey(loc[q].book.id)].present

====
